---- MODULE Spec2Model ----
(***************************************************************************)
(* A model of the retention daemon of src/main.py: the File Index          *)
(* (class Storage: a heap-ordered priority queue plus a membership set),   *)
(* the Scanner (update), the Evictor (clear) and the outer poll loop.      *)
(*                                                                         *)
(* File names are sequences of one-character strings and paths are         *)
(* sequences of names (a path split at os.sep), so that the parsing of the *)
(* birth date out of a path (int(), datetime.date) and the formatting of   *)
(* the archive folder ('{:02d}'.format) are computed, not assumed.         *)
(***************************************************************************)
EXTENDS Integers, Sequences, FiniteSets, TLC

VARIABLES
    queue_remove,   \* Storage._queue_remove.queue: the heap array of PrioritizedItem
    exist_files,    \* Storage._exist_files: the set of tracked paths
    pc,             \* position of the process in __main__ / update / clear
    queue,          \* update's local deque (left end = head of the sequence)
    now,            \* clear's local `now` (days since 1970-01-01 of today)
    disk,           \* the regular files currently present below STORAGE_DIRECTORY
    archive,        \* the zip files below ARCHIVE_DIRECTORY: path -> content held
    log,            \* the events logged during the current iteration of the main loop
    config,         \* config['Condition'], read once at startup
    last,           \* what the last step of update / clear did (observation only)
    stable,         \* files on disk without interruption since the current update began
    today,          \* the value of datetime.date.today()
    dirs,           \* the directories at and below STORAGE_DIRECTORY
    ret,            \* Storage API driver: the last call, its result, and call counts
    run,            \* the current (or last) invocation of clear: records at its start, paths popped, paths failed
    calm            \* update passes begun since the tree or an eviction last changed anything (0, 1, 2 = two or more)

vars == <<queue_remove, exist_files, pc, queue, now, disk, archive, log, config,
          last, stable, today, dirs, ret, run, calm>>

-----------------------------------------------------------------------------
(* Bounds of the model *)

\* the Storage API driver makes at most this many add_file calls
MaxAdds == 4

-----------------------------------------------------------------------------
(* Names and paths *)

Digits == {"0", "1", "2", "3", "4", "5", "6", "7", "8", "9"}

n_root    == <<"r", "o", "o", "t">>
n_archive == <<"a", "r", "c", "h", "i", "v", "e">>
n_2020    == <<"2", "0", "2", "0">>
n_2023    == <<"2", "0", "2", "3">>
n_01      == <<"0", "1">>
n_06      == <<"0", "6">>
n_12      == <<"1", "2">>
n_15      == <<"1", "5">>
n_20      == <<"2", "0">>
n_bad     == <<"b", "a", "d">>
n_priv    == <<"p", "r", "i", "v">>
n_copy    == <<"c", "o", "p", "y">>
n_hidden  == <<".", "h", "i", "d", "d", "e", "n">>
n_a_txt   == <<"a", ".", "t", "x", "t">>
n_b_txt   == <<"b", ".", "t", "x", "t">>
n_c_jpg   == <<"c", ".", "j", "p", "g">>
n_d_jpg   == <<"d", ".", "j", "p", "g">>
n_path_jpg == <<"p", "a", "t", "h", ".", "j", "p", "g">>
n_file_txt == <<"f", "i", "l", "e", ".", "t", "x", "t">>
ext_zip   == <<".", "z", "i", "p">>

\* config['Condition']['STORAGE_DIRECTORY'] and ['ARCHIVE_DIRECTORY'], split at os.sep
STORAGE_DIRECTORY == <<n_root>>
ARCHIVE_DIRECTORY == <<n_archive>>

\* os.path.join(file_name, name)
join(file_name, name) == Append(file_name, name)

\* name.startswith('.')
startswith_dot(name) == Len(name) > 0 /\ name[1] = "."

-----------------------------------------------------------------------------
(* Date codec: int(), datetime.date(y, m, d), (date - date(1970, 1, 1)).days *)

DigitVal(c) ==
    CASE c = "0" -> 0 [] c = "1" -> 1 [] c = "2" -> 2 [] c = "3" -> 3 [] c = "4" -> 4
      [] c = "5" -> 5 [] c = "6" -> 6 [] c = "7" -> 7 [] c = "8" -> 8 [] c = "9" -> 9

\* int(s) raises ValueError unless s is an optional sign followed by digits
int_ok(s) ==
    LET body == IF Len(s) > 0 /\ s[1] \in {"+", "-"} THEN Tail(s) ELSE s
    IN  Len(body) > 0 /\ \A i \in 1..Len(body) : body[i] \in Digits

RECURSIVE digits_val(_, _)
digits_val(s, acc) ==
    IF s = <<>> THEN acc ELSE digits_val(Tail(s), 10 * acc + DigitVal(Head(s)))

int_val(s) ==
    IF s[1] = "-" THEN 0 - digits_val(Tail(s), 0)
    ELSE IF s[1] = "+" THEN digits_val(Tail(s), 0)
    ELSE digits_val(s, 0)

is_leap(y) == y % 4 = 0 /\ (y % 100 # 0 \/ y % 400 = 0)

days_in_month(y, m) ==
    IF m = 2 THEN (IF is_leap(y) THEN 29 ELSE 28)
    ELSE IF m \in {4, 6, 9, 11} THEN 30 ELSE 31

\* datetime.date(y, m, d) raises ValueError unless this holds
date_ok(y, m, d) ==
    /\ y >= 1 /\ y <= 9999
    /\ m >= 1 /\ m <= 12
    /\ d >= 1 /\ d <= days_in_month(y, m)

RECURSIVE days_before_month(_, _)
days_before_month(y, m) ==
    IF m = 1 THEN 0 ELSE days_before_month(y, m - 1) + days_in_month(y, m - 1)

days_before_year(y) ==
    (y - 1) * 365 + ((y - 1) \div 4) - ((y - 1) \div 100) + ((y - 1) \div 400)

toordinal(date) ==
    days_before_year(date.year) + days_before_month(date.year, date.month) + date.day

\* (date - datetime.date(1970, 1, 1)).days
days_since_epoch(date) ==
    toordinal(date) - toordinal([year |-> 1970, month |-> 1, day |-> 1])

\* os.path.normpath(file_name).split(os.sep) indexed with [-4], [-3], [-2], then
\* datetime.date(int(..), int(..), int(..)): TRUE iff none of them raises
born_date_ok(path) ==
    LET n == Len(path) IN
    /\ n >= 4
    /\ int_ok(path[n - 3]) /\ int_ok(path[n - 2]) /\ int_ok(path[n - 1])
    /\ date_ok(int_val(path[n - 3]), int_val(path[n - 2]), int_val(path[n - 1]))

born_date_of(path) ==
    LET n == Len(path) IN
    [year |-> int_val(path[n - 3]), month |-> int_val(path[n - 2]),
     day |-> int_val(path[n - 1])]

RECURSIVE digits_of(_)
digits_of(n) ==
    IF n < 10 THEN <<CHOOSE c \in Digits : DigitVal(c) = n>>
    ELSE Append(digits_of(n \div 10), CHOOSE c \in Digits : DigitVal(c) = n % 10)

\* '{:02d}'.format(number), for number >= 0
to_str(number) ==
    IF number < 10 THEN <<"0">> \o digits_of(number) ELSE digits_of(number)

-----------------------------------------------------------------------------
(* The priority queue of Storage: queue.PriorityQueue over heapq.            *)
(* Heap positions are 0-based as in Python; the sequence is 1-based.         *)

\* PrioritizedItem is ordered by priority alone (item has compare=False)
item_lt(a, b) == a.priority < b.priority

RECURSIVE siftdown(_, _, _, _)
siftdown(heap, startpos, pos, newitem) ==
    IF pos > startpos
    THEN LET parentpos == (pos - 1) \div 2
             parent    == heap[parentpos + 1]
         IN  IF item_lt(newitem, parent)
             THEN siftdown([heap EXCEPT ![pos + 1] = parent], startpos, parentpos, newitem)
             ELSE [heap EXCEPT ![pos + 1] = newitem]
    ELSE [heap EXCEPT ![pos + 1] = newitem]

RECURSIVE siftup_loop(_, _, _)
siftup_loop(heap, pos, newitem) ==
    LET endpos   == Len(heap)
        leftpos  == 2 * pos + 1
        rightpos == leftpos + 1
        childpos == IF rightpos < endpos
                       /\ ~item_lt(heap[leftpos + 1], heap[rightpos + 1])
                    THEN rightpos ELSE leftpos
    IN  IF leftpos < endpos
        THEN siftup_loop([heap EXCEPT ![pos + 1] = heap[childpos + 1]], childpos, newitem)
        ELSE siftdown([heap EXCEPT ![pos + 1] = newitem], 0, pos, newitem)

\* queue.PriorityQueue._put: heappush
heappush(heap, item) == siftdown(Append(heap, item), 0, Len(heap), item)

\* heappop returning the last element of the array instead of the root
heappop_item_last(heap) == heap[Len(heap)]

\* queue.PriorityQueue._get: heappop, the item returned
heappop_item(heap) == heap[1]

\* heappop that moves the last element to the root and does not sift it
heappop_rest_nosift(heap) ==
    LET lastelt == heap[Len(heap)]
        rest    == SubSeq(heap, 1, Len(heap) - 1)
    IN  IF rest = <<>> THEN rest ELSE [rest EXCEPT ![1] = lastelt]

\* queue.PriorityQueue._get: heappop, the heap left
heappop_rest(heap) ==
    LET lastelt == heap[Len(heap)]
        rest    == SubSeq(heap, 1, Len(heap) - 1)
    IN  IF rest = <<>> THEN rest
        ELSE siftup_loop([rest EXCEPT ![1] = lastelt], 0, lastelt)

-----------------------------------------------------------------------------
(* class Storage *)

\* PrioritizedItem(priority=(file.born_date - date(1970, 1, 1)).days, item=file)
PrioritizedItem(file) == [priority |-> days_since_epoch(file.born_date), item |-> file]

\* is_file_exist answering False whatever is tracked
is_file_exist_never(file_name) == FALSE

is_file_exist(file_name) == file_name \in exist_files

is_empty == queue_remove = <<>>

\* add_file starting the queue afresh instead of pushing onto it
add_file_queue_afresh(file) == <<PrioritizedItem(file)>>

\* add_file without self._exist_files.add(file.path)
add_file_exist_skip(file) == exist_files

\* Storage.add_file: the queue and the set after the call
add_file_queue(file) == heappush(queue_remove, PrioritizedItem(file))
add_file_exist(file) == exist_files \cup {file.path}

\* age_oldest_file reading the back of the heap's list instead of its front
age_oldest_file_last == queue_remove[Len(queue_remove)].priority

\* Storage.age_oldest_file, for a non-empty queue
age_oldest_file == queue_remove[1].priority

\* pop_oldest_file reading the front record without taking it off the queue
pop_queue_peek == queue_remove

\* pop_oldest_file without self._exist_files.remove(file.path)
pop_exist_keep == exist_files

\* Storage.pop_oldest_file, for a non-empty queue: the file, the queue left, and
\* whether self._exist_files.remove(file.path) raises KeyError
pop_file == heappop_item(queue_remove).item
pop_queue == heappop_rest(queue_remove)
pop_raises == pop_file.path \notin exist_files
pop_exist == exist_files \ {pop_file.path}

-----------------------------------------------------------------------------
(* The watched tree *)

f_a    == <<n_root, n_2020, n_01, n_01, n_a_txt>>
f_b    == <<n_root, n_2020, n_06, n_15, n_b_txt>>
f_c    == <<n_root, n_2023, n_12, n_01, n_c_jpg>>
f_d    == <<n_root, n_2023, n_12, n_20, n_d_jpg>>
f_bad  == <<n_root, n_bad, n_path_jpg>>
f_hid  == <<n_root, n_hidden, n_2020, n_01, n_01, n_file_txt>>
f_priv == <<n_root, n_priv, n_2020, n_06, n_15, n_file_txt>>
f_a2   == <<n_root, n_copy, n_2020, n_01, n_01, n_a_txt>>

\* the watched trees the daemon is started on: the regular files of each
Trees == {{f_a, f_b, f_bad, f_hid}, {f_c, f_d, f_priv}, {f_a, f_b, f_d}, {f_a, f_a2}}

\* the directories that hold the files of a tree
DirsOf(files) == UNION {{SubSeq(f, 1, k) : k \in 1..(Len(f) - 1)} : f \in files}

\* the files other processes create and delete while the daemon runs
Volatile == {f_b, f_c}

\* the directories the daemon may not list: os.listdir raises PermissionError
Denied == {<<n_root, n_priv>>}

parent(path) == SubSeq(path, 1, Len(path) - 1)
basename(path) == path[Len(path)]

\* a path lies at or beneath an entry whose name begins with '.'
hidden(path) == \E i \in 2..Len(path) : startswith_dot(path[i])

\* os.path.isdir(file_name)
isdir(file_name) == file_name \in dirs

\* os.listdir(file_name) as a set; the order the names come in is arbitrary
listdir(file_name) ==
    {basename(p) : p \in {q \in dirs \cup disk : Len(q) > 1 /\ parent(q) = file_name}}

\* os.path.getsize(file_name), for a file on disk
getsize(file_name) == IF file_name = f_a THEN 10 ELSE 5

\* File(size=..., path=file_name, born_date=datetime.date(...))
File(file_name) ==
    [size |-> getsize(file_name), path |-> file_name, born_date |-> born_date_of(file_name)]

\* all orders in which a set of names can be listed
Orders(S) == {o \in [1..Cardinality(S) -> S] : \A i, j \in DOMAIN o : i # j => o[i] # o[j]}

RECURSIVE appendleft_all_dots(_, _, _)
\* the listing loop without the test for a leading '.'
appendleft_all_dots(q, file_name, names) ==
    IF names = <<>> THEN q
    ELSE appendleft_all_dots(<<join(file_name, Head(names))>> \o q, file_name, Tail(names))

RECURSIVE append_all(_, _, _)
\* the loop over the names with queue.append in place of queue.appendleft
append_all(q, file_name, names) ==
    IF names = <<>> THEN q
    ELSE LET name == Head(names)
         IN  IF startswith_dot(name)
             THEN append_all(q, file_name, Tail(names))
             ELSE append_all(q \o <<join(file_name, name)>>, file_name, Tail(names))

RECURSIVE appendleft_all(_, _, _)
\* for name in names: if name.startswith('.'): continue; queue.appendleft(join(..))
appendleft_all(q, file_name, names) ==
    IF names = <<>> THEN q
    ELSE LET name == Head(names)
         IN  IF startswith_dot(name)
             THEN appendleft_all(q, file_name, Tail(names))
             ELSE appendleft_all(<<join(file_name, name)>> \o q, file_name, Tail(names))

-----------------------------------------------------------------------------
(* Configuration and the inputs the environment supplies *)

\* settings.ini, section Condition: the two thresholds as clear reads them
\* (THRESHOLD_FILES_OLD_DAYS through int(), THRESHOLD_FREE_SPACE as the fraction
\* num/den that float() yields)
Configs ==
    [THRESHOLD_FILES_OLD_DAYS : {<<"3", "0">>},
     THRESHOLD_FREE_SPACE : {[num |-> 2, den |-> 10]}]

\* the values datetime.date.today() takes, in the order the days pass
Todays == <<[year |-> 2024, month |-> 1, day |-> 10], [year |-> 2024, month |-> 1, day |-> 19]>>

\* the values shutil.disk_usage(STORAGE_DIRECTORY) takes
DiskUsages == {[free |-> 1, total |-> 10], [free |-> 2, total |-> 10], [free |-> 3, total |-> 10]}

\* the free-space test with <= for <
free_below_or_equal(info) ==
    info.free * config.THRESHOLD_FREE_SPACE.den <= config.THRESHOLD_FREE_SPACE.num * info.total

\* free_space() < float(config['Condition']['THRESHOLD_FREE_SPACE'])
free_below(info) ==
    info.free * config.THRESHOLD_FREE_SPACE.den < config.THRESHOLD_FREE_SPACE.num * info.total

\* the age test with > for >=
old_enough_strict == now - age_oldest_file > int_val(config.THRESHOLD_FILES_OLD_DAYS)

\* now - storage.age_oldest_file() >= int(config['Condition']['THRESHOLD_FILES_OLD_DAYS'])
old_enough == now - age_oldest_file >= int_val(config.THRESHOLD_FILES_OLD_DAYS)

\* the events written through logging.info
Event(msg, path) == [msg |-> msg, path |-> path]

NoRun == [n |-> 0, popped |-> {}, failed |-> {}]

NoCall == [op |-> "none", adds |-> 0, pops |-> 0, dup |-> FALSE]

Init ==
    /\ queue_remove = <<>>
    /\ exist_files = {}
    /\ pc = "main_update"
    /\ queue = <<>>
    /\ now = 0
    /\ disk \in Trees
    /\ dirs = DirsOf(disk)
    /\ archive = <<>>
    /\ log = {}
    /\ config \in Configs
    /\ last = [op |-> "none"]
    /\ stable = {}
    /\ today = Todays[1]
    /\ ret = NoCall
    /\ run = NoRun
    /\ calm = 0

-----------------------------------------------------------------------------
(* update(storage, config) *)

\* queue = collections.deque(); queue.appendleft(STORAGE_DIRECTORY)
UpdateStart ==
    /\ pc = "main_update"
    /\ pc' = "update"
    /\ queue' = <<STORAGE_DIRECTORY>>
    /\ log' = {}
    /\ stable' = disk
    /\ last' = [op |-> "update_start"]
    /\ calm' = IF calm < 2 THEN calm + 1 ELSE calm
    /\ UNCHANGED <<queue_remove, exist_files, now, disk, archive, config, today, dirs, ret, run>>

\* the directory branch with the try around the whole loop: a failed listing ends the scan
visit_dir_abort(file_name, rest) ==
    IF file_name \in Denied
    THEN /\ queue' = <<>>
         /\ log' = log \cup {Event("ERROR: Permission denied for view info", file_name)}
         /\ last' = [op |-> "list_failed", path |-> file_name]
    ELSE \E names \in Orders(listdir(file_name)) :
            /\ queue' = appendleft_all(rest, file_name, names)
            /\ log' = log
            /\ last' = [op |-> "list", path |-> file_name]

\* the directory branch of one iteration of the while loop
visit_dir(file_name, rest) ==
    IF file_name \in Denied
    THEN /\ queue' = rest
         /\ log' = log \cup {Event("ERROR: Permission denied for view info", file_name)}
         /\ last' = [op |-> "list_failed", path |-> file_name]
    ELSE \E names \in Orders(listdir(file_name)) :
            /\ queue' = appendleft_all(rest, file_name, names)
            /\ log' = log
            /\ last' = [op |-> "list", path |-> file_name]

\* the file branch of one iteration of the while loop (the path is not tracked)
visit_file(file_name) ==
    IF file_name \notin disk
    THEN /\ log' = log \cup {Event("ERROR: Permission denied for view info", file_name)}
         /\ last' = [op |-> "stat_failed", path |-> file_name]
         /\ UNCHANGED <<queue_remove, exist_files>>
    ELSE IF ~born_date_ok(file_name)
    THEN /\ log' = log \cup {Event("ERROR: Permission denied for view info", file_name)}
         /\ last' = [op |-> "date_failed", path |-> file_name]
         /\ UNCHANGED <<queue_remove, exist_files>>
    ELSE /\ queue_remove' = add_file_queue(File(file_name))
         /\ exist_files' = add_file_exist(File(file_name))
         /\ log' = log \cup {Event("Detect new file", file_name)}
         /\ last' = [op |-> "insert", path |-> file_name]

\* one iteration of `while len(queue) > 0`: file_name = queue.pop() takes the right end
UpdateStep ==
    /\ pc = "update"
    /\ queue # <<>>
    /\ LET file_name == queue[Len(queue)]
           rest      == SubSeq(queue, 1, Len(queue) - 1)
       IN  IF isdir(file_name)
           THEN /\ visit_dir(file_name, rest)
                /\ UNCHANGED <<queue_remove, exist_files>>
           ELSE /\ queue' = rest
                /\ IF ~is_file_exist(file_name)
                   THEN visit_file(file_name)
                   ELSE /\ last' = [op |-> "known", path |-> file_name]
                        /\ UNCHANGED <<queue_remove, exist_files, log>>
    /\ UNCHANGED <<pc, now, disk, archive, config, stable, today, dirs, ret, run, calm>>

\* the while loop ends and update returns
UpdateReturn ==
    /\ pc = "update"
    /\ queue = <<>>
    /\ pc' = "main_clear"
    /\ last' = [op |-> "update_return"]
    /\ UNCHANGED <<queue_remove, exist_files, queue, now, disk, archive, log, config,
                   stable, today, dirs, ret, run, calm>>

-----------------------------------------------------------------------------
(* clear(storage, config) *)

\* now = (datetime.date.today() - datetime.date(1970, 1, 1)).days
ClearStart ==
    /\ pc = "main_clear"
    /\ now' = days_since_epoch(today)
    /\ pc' = "clear"
    /\ last' = [op |-> "clear_start"]
    /\ run' = [n |-> Len(queue_remove), popped |-> {}, failed |-> {}]
    /\ UNCHANGED <<queue_remove, exist_files, queue, disk, archive, log, config,
                   stable, today, dirs, ret, calm>>

\* dst_folder = os.path.join(ARCHIVE_DIRECTORY, to_str(year), to_str(month), to_str(day))
dst_folder(file) ==
    ARCHIVE_DIRECTORY \o <<to_str(file.born_date.year), to_str(file.born_date.month),
                           to_str(file.born_date.day)>>

\* file_name = os.path.normpath(file.path).split(os.sep)[-1]
\* dst_file = os.path.join(dst_folder, file_name + '.zip')
dst_file(file) == join(dst_folder(file), basename(file.path) \o ext_zip)

\* how the try block of the loop body can end for a popped file: an exception out of
\* mkdir (or out of opening the zip file, which changes as little), out of
\* arch_file.write, out of os.remove, or none
Outcomes(file) ==
    IF file.path \in disk
    THEN {"mkdir_failed", "write_failed", "remove_failed", "ok"}
    ELSE {"mkdir_failed", "write_failed"}

\* the zip files after the try block: ZipFile(dst_file, 'w') truncates what was there,
\* and holds one entry (the source) once arch_file.write has succeeded
archive_after(file, outcome) ==
    IF outcome = "mkdir_failed" THEN archive
    ELSE [p \in (DOMAIN archive) \cup {dst_file(file)} |->
            IF p = dst_file(file)
            THEN (IF outcome = "write_failed" THEN <<>> ELSE file.path)
            ELSE archive[p]]

\* os.remove(file.path) run whatever the try block did
disk_after_always(file, outcome) == disk \ {file.path}

\* the watched tree after the try block: os.remove(file.path) is its last statement
disk_after(file, outcome) == IF outcome = "ok" THEN disk \ {file.path} ELSE disk

\* the events the loop body logs
log_after(file, outcome) ==
    log \cup (IF outcome \in {"remove_failed", "ok"}
              THEN {Event("Move to archive file", file.path)} ELSE {})
        \cup (IF outcome # "ok"
              THEN {Event("ERROR: Can't delete or archive file", file.path)} ELSE {})

\* the smallest priority among the records of the queue, found by inspection
min_key(heap) ==
    CHOOSE k \in {heap[i].priority : i \in DOMAIN heap} :
        \A i \in DOMAIN heap : k <= heap[i].priority

\* the while condition holds for some answer of the free-space query: one loop body
ClearEvict ==
    /\ pc = "clear"
    /\ ~is_empty
    /\ old_enough
    /\ \E info \in DiskUsages :
        /\ free_below(info)
        /\ queue_remove' = pop_queue
        /\ IF pop_raises
           THEN \* KeyError out of pop_oldest_file leaves clear and __main__
                /\ pc' = "crashed"
                /\ last' = [op |-> "crash", path |-> pop_file.path]
                /\ UNCHANGED <<exist_files, disk, archive, log, stable, run, calm>>
           ELSE \E outcome \in Outcomes(pop_file) :
                /\ pc' = "clear"
                /\ exist_files' = pop_exist
                /\ archive' = archive_after(pop_file, outcome)
                /\ disk' = disk_after(pop_file, outcome)
                /\ stable' = stable \cap disk_after(pop_file, outcome)
                /\ log' = log_after(pop_file, outcome)
                /\ last' = [op |-> "evict", path |-> pop_file.path, file |-> pop_file,
                            key |-> heappop_item(queue_remove).priority,
                            min |-> min_key(queue_remove),
                            age |-> now - age_oldest_file,
                            info |-> info, outcome |-> outcome,
                            on_disk |-> pop_file.path \in disk,
                            tracked |-> exist_files]
                /\ run' = [n |-> run.n,
                            popped |-> run.popped \cup {pop_file.path},
                            failed |-> IF outcome = "ok" THEN run.failed
                                       ELSE run.failed \cup {pop_file.path}]
                /\ calm' = 0
    /\ UNCHANGED <<queue, now, config, today, dirs, ret>>

\* the while condition is false: clear returns
ClearReturn ==
    /\ pc = "clear"
    /\ \/ /\ (IF is_empty THEN TRUE ELSE ~old_enough)
          /\ last' = [op |-> "return", queried |-> FALSE]
       \/ /\ (IF is_empty THEN FALSE ELSE old_enough)
          /\ \E info \in DiskUsages :
                /\ ~free_below(info)
                /\ last' = [op |-> "return", queried |-> TRUE, info |-> info]
    /\ pc' = "main_sleep"
    /\ now' = 0
    /\ UNCHANGED <<queue_remove, exist_files, queue, disk, archive, log, config,
                   stable, today, dirs, ret, run, calm>>

\* shutil.disk_usage raises OSError inside free_space(): nothing in clear or in
\* __main__ catches it
ClearCrash ==
    /\ pc = "clear"
    /\ ~is_empty
    /\ old_enough
    /\ pc' = "crashed"
    /\ last' = [op |-> "crash", path |-> STORAGE_DIRECTORY]
    /\ UNCHANGED <<queue_remove, exist_files, queue, now, disk, archive, log, config,
                   stable, today, dirs, ret, run, calm>>

-----------------------------------------------------------------------------
(* __main__ and the environment *)

\* time.sleep(int(config['Condition']['CHECK_TIME_DELAY'])), then the next iteration
Sleep ==
    /\ pc = "main_sleep"
    /\ pc' = "main_update"
    /\ last' = [op |-> "sleep"]
    /\ \E i \in DOMAIN Todays : today' = Todays[i] /\ toordinal(today) <= toordinal(Todays[i])
    /\ UNCHANGED <<queue_remove, exist_files, queue, now, disk, archive, log, config,
                   stable, dirs, ret, run, calm>>

Running == pc \in {"main_update", "update", "main_clear", "clear", "main_sleep"}

\* another process creates a file in the watched tree
EnvCreate ==
    /\ Running
    /\ \E f \in {v \in Volatile \ disk : parent(v) \in dirs} :
        /\ disk' = disk \cup {f}
        /\ last' = [op |-> "env_create", path |-> f]
    /\ calm' = 0
    /\ UNCHANGED <<queue_remove, exist_files, pc, queue, now, archive, log, config,
                   stable, today, dirs, ret, run>>

\* another process deletes a file of the watched tree
EnvDelete ==
    /\ Running
    /\ \E f \in Volatile \cap disk :
        /\ disk' = disk \ {f}
        /\ stable' = stable \ {f}
        /\ last' = [op |-> "env_delete", path |-> f]
    /\ calm' = 0
    /\ UNCHANGED <<queue_remove, exist_files, pc, queue, now, archive, log, config,
                   today, dirs, ret, run>>

Next ==
    \/ UpdateStart
    \/ UpdateStep
    \/ UpdateReturn
    \/ ClearStart
    \/ ClearEvict
    \/ ClearReturn
    \/ ClearCrash
    \/ Sleep
    \/ EnvCreate
    \/ EnvDelete

Spec == Init /\ [][Next]_vars

-----------------------------------------------------------------------------
(* The Storage API on its own: any caller, any order of calls *)

\* the File objects the caller passes
ApiFiles == {File(path) : path \in {f_a, f_b, f_c, f_d, f_hid, f_priv}}

InitStorage ==
    /\ queue_remove = <<>>
    /\ exist_files = {}
    /\ pc = "api"
    /\ queue = <<>>
    /\ now = 0
    /\ disk = {}
    /\ dirs = {}
    /\ archive = <<>>
    /\ log = {}
    /\ config \in Configs
    /\ last = [op |-> "none"]
    /\ stable = {}
    /\ today = Todays[1]
    /\ ret = NoCall
    /\ run = NoRun
    /\ calm = 0

ApiFrame == UNCHANGED <<pc, queue, now, disk, dirs, archive, log, config, last, stable, today,
                        run, calm>>

\* storage.add_file(file)
CallAddFile ==
    /\ pc = "api"
    /\ ret.adds < MaxAdds
    /\ \E file \in ApiFiles :
        /\ queue_remove' = add_file_queue(file)
        /\ exist_files' = add_file_exist(file)
        /\ ret' = [op |-> "add_file", file |-> file, tracked |-> is_file_exist(file.path),
                   queue_before |-> queue_remove, exist_before |-> exist_files,
                   adds |-> ret.adds + 1, pops |-> ret.pops,
                   dup |-> ret.dup \/ is_file_exist(file.path)]
    /\ ApiFrame

\* storage.pop_oldest_file()
CallPopOldestFile ==
    /\ pc = "api"
    /\ IF is_empty
       THEN /\ ret' = [op |-> "pop_oldest_file", result |-> "None",
                       queue_before |-> queue_remove, exist_before |-> exist_files,
                       adds |-> ret.adds, pops |-> ret.pops, dup |-> ret.dup]
            /\ UNCHANGED <<queue_remove, exist_files>>
       ELSE /\ queue_remove' = pop_queue
            /\ exist_files' = IF pop_raises THEN exist_files ELSE pop_exist
            /\ ret' = [op |-> "pop_oldest_file",
                       result |-> IF pop_raises THEN "KeyError" ELSE "File",
                       file |-> pop_file,
                       queue_before |-> queue_remove, exist_before |-> exist_files,
                       adds |-> ret.adds, pops |-> ret.pops + 1, dup |-> ret.dup]
    /\ ApiFrame

\* storage.age_oldest_file()
CallAgeOldestFile ==
    /\ pc = "api"
    /\ ret' = [op |-> "age_oldest_file",
               result |-> IF is_empty THEN "None" ELSE "int",
               age |-> IF is_empty THEN 0 ELSE age_oldest_file,
               queue_before |-> queue_remove, exist_before |-> exist_files,
               adds |-> ret.adds, pops |-> ret.pops, dup |-> ret.dup]
    /\ UNCHANGED <<queue_remove, exist_files>>
    /\ ApiFrame

\* storage.is_file_exist(file_name)
CallIsFileExist ==
    /\ pc = "api"
    /\ \E file \in ApiFiles :
        ret' = [op |-> "is_file_exist", path |-> file.path,
                result |-> is_file_exist(file.path),
                queue_before |-> queue_remove, exist_before |-> exist_files,
                adds |-> ret.adds, pops |-> ret.pops, dup |-> ret.dup]
    /\ UNCHANGED <<queue_remove, exist_files>>
    /\ ApiFrame

\* storage.is_empty()
CallIsEmpty ==
    /\ pc = "api"
    /\ ret' = [op |-> "is_empty", result |-> is_empty,
               queue_before |-> queue_remove, exist_before |-> exist_files,
               adds |-> ret.adds, pops |-> ret.pops, dup |-> ret.dup]
    /\ UNCHANGED <<queue_remove, exist_files>>
    /\ ApiFrame

NextStorage ==
    \/ CallAddFile
    \/ CallPopOldestFile
    \/ CallAgeOldestFile
    \/ CallIsFileExist
    \/ CallIsEmpty

SpecStorage == InitStorage /\ [][NextStorage]_vars

-----------------------------------------------------------------------------
(* Properties of the Storage API (checked under SpecStorage) *)

\* the priority key of a file, from its born date
KeyOf(file) == days_since_epoch(file.born_date)

\* C1: as long as every add_file was given a path not tracked at that moment, a
\* pop_oldest_file on a non-empty index returns a record that was present and whose
\* key is the minimum of the keys present, and removes one record; on an empty index
\* it returns None and changes nothing; and once the pops equal the inserts the index
\* is empty.
C1_PopReturnsMinimum ==
    ~ret.dup =>
        /\ (ret.op = "pop_oldest_file" /\ ret.queue_before # <<>>) =>
              /\ ret.result = "File"
              /\ \E i \in DOMAIN ret.queue_before : ret.queue_before[i].item = ret.file
              /\ \A i \in DOMAIN ret.queue_before :
                    KeyOf(ret.file) <= KeyOf(ret.queue_before[i].item)
              /\ Len(queue_remove) = Len(ret.queue_before) - 1
              /\ exist_files = ret.exist_before \ {ret.file.path}
        /\ (ret.op = "pop_oldest_file" /\ ret.queue_before = <<>>) =>
              /\ ret.result = "None"
              /\ queue_remove = <<>>
              /\ exist_files = ret.exist_before
        /\ (ret.pops = ret.adds) => (is_empty /\ exist_files = {})
        /\ is_empty => ret.pops = ret.adds

\* C1 witness: with distinct paths only, a second pop from an index of at least three
\* records has returned a file
C1_Witness ==
    /\ ~ret.dup
    /\ ret.op = "pop_oldest_file"
    /\ ret.result = "File"
    /\ ret.pops >= 2
    /\ Len(ret.queue_before) >= 3

\* C2 (as claimed): add_file of a path already tracked leaves the ordering structure
\* and the membership set as they were, and every later pop_oldest_file on a non-empty
\* index returns a file.
C2_TrackedInsertIsNoOp ==
    /\ (ret.op = "add_file" /\ ret.tracked) =>
          /\ queue_remove = ret.queue_before
          /\ exist_files = ret.exist_before
    /\ (ret.op = "pop_oldest_file" /\ ret.queue_before # <<>>) => ret.result = "File"

-----------------------------------------------------------------------------
(* Properties of the daemon (checked under Spec) *)

\* int(config['Condition']['THRESHOLD_FILES_OLD_DAYS'])
AgeThreshold == int_val(config.THRESHOLD_FILES_OLD_DAYS)

\* the free-space fraction free/total lies strictly below THRESHOLD_FREE_SPACE
StrictlyBelow(info) ==
    info.free * config.THRESHOLD_FREE_SPACE.den < config.THRESHOLD_FREE_SPACE.num * info.total

\* the age in days, today, of the oldest record of a non-empty queue
OldestAge(heap) == days_since_epoch(today) - min_key(heap)

Jan10 == [year |-> 2024, month |-> 1, day |-> 10]

\* the steps of update that visit an entry
VisitOps == {"list", "list_failed", "stat_failed", "date_failed", "insert", "known"}

\* the zip file of dst: it exists and holds the content of src
Archived(dst, src) == dst \in DOMAIN archive /\ archive[dst] = src

\* archive/2020/01/01/a.txt.zip
a_txt_zip ==
    <<n_archive, n_2020, n_01, n_01, <<"a", ".", "t", "x", "t", ".", "z", "i", "p">>>>

\* C3: a record leaves the index only in a loop body of clear, and a loop body runs only
\* when the evaluation before it found the index non-empty, the oldest key at least
\* THRESHOLD_FILES_OLD_DAYS days before today (30 included), and free/total strictly
\* below THRESHOLD_FREE_SPACE; on 2024-01-10 with threshold 30 the file born 2023-12-01
\* is taken at 40 days and the one born 2023-12-20 is not taken.
C3_EvictOnlyWhenAllHold ==
    /\ [](last.op = "evict" =>
            /\ last.tracked # {}
            /\ days_since_epoch(today) - last.min >= AgeThreshold
            /\ days_since_epoch(today) - KeyOf(last.file) >= AgeThreshold
            /\ StrictlyBelow(last.info)
            /\ (today = Jan10 /\ AgeThreshold = 30) =>
                  /\ last.path # f_d
                  /\ (last.path = f_c => last.age = 40))
    /\ [][Len(queue_remove') < Len(queue_remove) => last'.op = "evict"]_vars

\* C3 witness: on 2024-01-10 the file born 2023-12-01 has been evicted at 40 days
C3_Witness ==
    /\ last.op = "evict"
    /\ today = Jan10
    /\ last.path = f_c
    /\ last.age = 40

\* C4: when clear has returned, the index is empty, or its oldest record is younger
\* than the threshold, or the free-space fraction it read is not below the threshold;
\* the returning step and every step outside clear's loop pops, archives and deletes
\* nothing.
C4_ReturnOnlyWhenConditionFails ==
    /\ []((pc = "main_sleep" /\ last.op = "return") =>
            IF is_empty THEN TRUE
            ELSE IF OldestAge(queue_remove) < AgeThreshold THEN TRUE
            ELSE last.queried /\ ~StrictlyBelow(last.info))
    /\ [][(pc = "clear" /\ pc' = "main_sleep") =>
            UNCHANGED <<queue_remove, exist_files, disk, archive>>]_vars
    /\ [][pc # "clear" =>
            /\ Len(queue_remove') >= Len(queue_remove)
            /\ archive' = archive
            /\ (disk' # disk => last'.op \in {"env_create", "env_delete"})]_vars

\* C4 witness: clear has returned on the free-space test with an old record tracked
C4_Witness ==
    /\ pc = "main_sleep"
    /\ last.op = "return"
    /\ last.queried
    /\ ~is_empty

\* C5: the record a loop body of clear takes has a key no greater than that of any
\* record still tracked; b.txt is never taken while a.txt is tracked; and when a.txt is
\* archived it is held by archive/2020/01/01/a.txt.zip and gone from disk while b.txt
\* is still tracked.
C5_OldestFirst ==
    last.op = "evict" =>
        /\ \A i \in DOMAIN queue_remove : KeyOf(last.file) <= KeyOf(queue_remove[i].item)
        /\ (last.path = f_b => f_a \notin last.tracked)
        /\ (last.path = f_a /\ last.outcome = "ok") =>
              (Archived(a_txt_zip, f_a) /\ f_a \notin disk)
        /\ (last.path = f_a /\ f_b \in last.tracked) => f_b \in exist_files

\* C5 witness: a.txt has been archived and deleted while b.txt is tracked and on disk
C5_Witness ==
    /\ last.op = "evict"
    /\ last.path = f_a
    /\ last.outcome = "ok"
    /\ f_b \in exist_files
    /\ f_b \in disk

\* C6: after a loop body in which mkdir or the compression failed, the source file is
\* on disk if it was before, its record is in neither structure of the index, and
\* clear is still in its loop: if a record old enough remains, the next loop body can run.
C6_FailureKeepsFileDropsRecord ==
    (last.op = "evict" /\ last.outcome \in {"mkdir_failed", "write_failed"}) =>
        /\ last.on_disk => last.path \in disk
        /\ last.path \notin exist_files
        /\ \A i \in DOMAIN queue_remove : queue_remove[i].item.path # last.path
        /\ pc = "clear"
        /\ (IF is_empty THEN FALSE ELSE OldestAge(queue_remove) >= AgeThreshold)
              => ENABLED ClearEvict

\* C6 witness: compression of a file on disk has failed and a further record is tracked
C6_Witness ==
    /\ last.op = "evict"
    /\ last.outcome = "write_failed"
    /\ last.on_disk
    /\ ~is_empty

\* C7 (as claimed): no I/O failure ends the process.
C7_DaemonNeverStops == pc # "crashed"

\* a file update can track: no hidden name on its path, no unlistable directory above
\* it, and a path that decodes to a date
Trackable(f) ==
    /\ ~hidden(f)
    /\ \A k \in 1..Len(f) : SubSeq(f, 1, k) \notin Denied
    /\ born_date_ok(f)

\* C8: when update has returned, every trackable file that was on disk throughout the
\* pass is tracked, whatever else failed; nothing but trackable files is ever tracked,
\* and an entry whose stat or date decoding failed is not tracked.
C8_ScanTracksEveryGoodFile ==
    /\ pc = "main_clear" => \A f \in stable : Trackable(f) => f \in exist_files
    /\ \A p \in exist_files : Trackable(p)
    /\ last.op \in {"stat_failed", "date_failed"} => last.path \notin exist_files

\* C8 witness: update has returned with both dated files tracked after the listing of
\* root/priv failed
C8_Witness ==
    /\ pc = "main_clear"
    /\ {f_c, f_d} \subseteq (exist_files \cap stable)
    /\ Event("ERROR: Permission denied for view info", <<n_root, n_priv>>) \in log

\* C9: no path at or beneath an entry whose name begins with '.' is ever queued,
\* visited, logged or tracked.
C9_HiddenNeverVisited ==
    /\ \A i \in DOMAIN queue : ~hidden(queue[i])
    /\ \A p \in exist_files : ~hidden(p)
    /\ \A e \in log : ~hidden(e.path)
    /\ last.op \in VisitOps => ~hidden(last.path)

\* C9 witness: update has returned on the tree that holds root/.hidden/2020/01/01/file.txt
C9_Witness ==
    /\ pc = "main_clear"
    /\ f_hid \in disk
    /\ f_a \in exist_files

\* C10 (as claimed): whenever a record has been removed from the index, its file has
\* been compressed into the archive and deleted from disk.
C10_RemovedExactlyWhenArchived ==
    last.op = "evict" => (Archived(dst_file(last.file), last.path) /\ last.path \notin disk)

\* C10 (amended): a record is removed exactly in the loop body of clear that pops it,
\* whether archiving succeeds or not: after a successful body the file is held by its
\* zip file and gone from disk, after a failed one the record is gone all the same and
\* the file is on disk if it was before; and every file clear archives and deletes has
\* its record removed.
C10_RemovedWhenPopped ==
    /\ [](last.op = "evict" =>
            /\ last.path \in last.tracked
            /\ exist_files = last.tracked \ {last.path}
            /\ last.outcome = "ok" =>
                  (Archived(dst_file(last.file), last.path) /\ last.path \notin disk)
            /\ last.outcome # "ok" => (last.on_disk => last.path \in disk))
    /\ [][exist_files' # exist_files /\ exist_files' \subseteq exist_files
            => last'.op = "evict"]_vars

\* C10 witness: a record has been removed although the file could not be archived
C10_Witness ==
    /\ last.op = "evict"
    /\ last.outcome = "mkdir_failed"
    /\ last.on_disk
    /\ last.path \in disk
    /\ last.path \notin exist_files

-----------------------------------------------------------------------------
(* Retry, thresholds, read-only queries, index agreement *)

\* the queue holds a record of this path
Queued(path) == \E i \in DOMAIN queue_remove : queue_remove[i].item.path = path

\* C11: a file whose archiving failed is not tried again by the same invocation of
\* clear (its record stays out of the index until clear has returned), and when the
\* next update pass has returned, every such file that stayed on disk and can be read
\* is tracked again, with a record in the queue under its born-date key.
C11_FailedRetriedNextIteration ==
    /\ pc \in {"clear", "main_sleep"} =>
            \A f \in run.failed : f \notin exist_files /\ ~Queued(f)
    /\ pc = "main_clear" =>
            \A f \in run.failed \cap stable :
                Trackable(f) =>
                    /\ f \in exist_files
                    /\ \E i \in DOMAIN queue_remove :
                          /\ queue_remove[i].item.path = f
                          /\ queue_remove[i].priority = KeyOf(File(f))

\* C11 witness: the pass after a failed attempt has tracked the file again
C11_Witness ==
    /\ pc = "main_clear"
    /\ \E f \in run.failed \cap stable : f \in disk /\ f \in exist_files /\ Queued(f)

\* C12 (as claimed): crossing the age threshold alone is enough for clear to evict, so
\* clear never returns leaving a tracked record that is at least
\* THRESHOLD_FILES_OLD_DAYS days old.
C12_EitherThresholdEvicts ==
    (pc = "main_sleep" /\ last.op = "return" /\ ~is_empty) =>
        OldestAge(queue_remove) < AgeThreshold

\* C12 (amended): clear evicts only when the age threshold and the free-space
\* threshold are crossed together: every eviction saw the oldest record at least
\* THRESHOLD_FILES_OLD_DAYS days old and free/total strictly below
\* THRESHOLD_FREE_SPACE, and whenever clear returns leaving a record that old, it
\* read a free-space fraction that is not below the threshold.
C12_BothThresholdsEvict ==
    /\ last.op = "evict" =>
            (last.age >= AgeThreshold /\ StrictlyBelow(last.info))
    /\ (pc = "main_sleep" /\ last.op = "return" /\ last.queried) =>
            /\ ~is_empty
            /\ OldestAge(queue_remove) >= AgeThreshold
            /\ ~StrictlyBelow(last.info)
    /\ (pc = "main_sleep" /\ last.op = "return" /\ ~last.queried /\ ~is_empty) =>
            OldestAge(queue_remove) < AgeThreshold

\* C12 witness: clear has returned with free space plentiful, leaving two records of
\* which the oldest is past the age threshold
C12_Witness ==
    /\ pc = "main_sleep"
    /\ last.op = "return"
    /\ last.queried
    /\ last.info.free = 3
    /\ Len(queue_remove) >= 2
    /\ OldestAge(queue_remove) >= AgeThreshold

\* C13: age_oldest_file returns None on an empty index and otherwise the smallest key
\* tracked, which is the key of the record the next pop_oldest_file returns;
\* age_oldest_file, is_file_exist and is_empty answer from the state they find and
\* leave the queue and the membership set as they were.
C13_QueriesReadOnly ==
    /\ [](/\ ret.op = "age_oldest_file" =>
                /\ queue_remove = ret.queue_before
                /\ exist_files = ret.exist_before
                /\ (ret.queue_before = <<>>) = (ret.result = "None")
                /\ ret.queue_before # <<>> =>
                      /\ ret.result = "int"
                      /\ ret.age = min_key(ret.queue_before)
          /\ ret.op = "is_file_exist" =>
                /\ queue_remove = ret.queue_before
                /\ exist_files = ret.exist_before
                /\ ret.result = (ret.path \in ret.exist_before)
          /\ ret.op = "is_empty" =>
                /\ queue_remove = ret.queue_before
                /\ exist_files = ret.exist_before
                /\ ret.result = (Len(ret.queue_before) = 0))
    /\ [][(ret.op = "age_oldest_file" /\ ret.result = "int"
            /\ ret'.op = "pop_oldest_file") =>
                /\ ret'.result # "None"
                /\ KeyOf(ret'.file) = ret.age]_vars

\* C13 witness: age_oldest_file has answered 18262 (2020-01-01) on an index of three
\* records with younger ones among them, and the index is as it was
C13_Witness ==
    /\ ret.op = "age_oldest_file"
    /\ ret.result = "int"
    /\ Len(queue_remove) = 3
    /\ ret.age = KeyOf(File(f_a))
    /\ \E i \in DOMAIN queue_remove : queue_remove[i].priority > ret.age
    /\ queue_remove = ret.queue_before

\* C14: in every state of the daemon the queue holds exactly one record for each path
\* of the membership set and no other record, so the two have the same size; every
\* change of the index is an insert by update that grows both by one, or a pop by clear
\* that shrinks both by one.
C14_QueueAgreesWithSet ==
    /\ [](/\ Len(queue_remove) = Cardinality(exist_files)
          /\ {queue_remove[i].item.path : i \in DOMAIN queue_remove} = exist_files
          /\ \A i, j \in DOMAIN queue_remove :
                queue_remove[i].item.path = queue_remove[j].item.path => i = j)
    /\ [][(queue_remove' # queue_remove \/ exist_files' # exist_files) =>
            \/ /\ last'.op = "insert"
               /\ Len(queue_remove') = Len(queue_remove) + 1
               /\ Cardinality(exist_files') = Cardinality(exist_files) + 1
            \/ /\ last'.op = "evict"
               /\ Len(queue_remove') = Len(queue_remove) - 1
               /\ Cardinality(exist_files') = Cardinality(exist_files) - 1]_vars

\* C14 witness: after an earlier clear has popped records, update has inserted one
\* more and the index holds two records for two paths
C14_Witness ==
    /\ last.op = "insert"
    /\ run.popped # {}
    /\ Len(queue_remove) = 2
    /\ Cardinality(exist_files) = 2

-----------------------------------------------------------------------------
(* Idempotence, logging, visiting order, termination, frames, archive safety *)

\* C15: an update pass that follows another with no change of the tree and no eviction
\* since before the earlier one began inserts nothing, logs no 'Detect new file' and
\* leaves the queue and the membership set as they were; and in any pass 'Detect new
\* file' is logged only by an insert, for the path inserted, which was not tracked
\* when it was visited.
C15_UpdateIdempotent ==
    /\ []((calm = 2 /\ pc \in {"update", "main_clear"}) =>
            /\ last.op # "insert"
            /\ \A e \in log : e.msg # "Detect new file")
    /\ [][(calm' = 2 /\ pc \in {"main_update", "update"}) =>
            UNCHANGED <<queue_remove, exist_files>>]_vars
    /\ [][\A e \in log' \ log :
            e.msg = "Detect new file" =>
                /\ last'.op = "insert"
                /\ e.path = last'.path
                /\ e.path \notin exist_files
                /\ e.path \in exist_files']_vars

\* C15 witness: a second pass over an unchanged tree has returned with records
\* tracked and files on disk still untracked
C15_Witness ==
    /\ calm = 2
    /\ pc = "main_clear"
    /\ last.op = "update_return"
    /\ Len(queue_remove) >= 2
    /\ disk \ exist_files # {}

\* C16: a loop body of clear logs 'Move to archive file' for the file it popped only
\* when the file has been compressed into the archive and deleted from disk; when
\* creating the directory, compressing or deleting fails it logs the error event and no
\* 'Move to archive file'.
C16_ArchivedLoggedOnlyOnSuccess ==
    last.op = "evict" =>
        /\ Event("Move to archive file", last.path) \in log =>
              /\ last.outcome = "ok"
              /\ Archived(dst_file(last.file), last.path)
              /\ last.path \notin disk
        /\ last.outcome # "ok" =>
              /\ Event("ERROR: Can't delete or archive file", last.path) \in log
              /\ Event("Move to archive file", last.path) \notin log

\* C17 (as claimed): update visits depth-first, last pushed first: the entry visited
\* right after a directory was expanded is the entry pushed last, a child of that
\* directory, whatever else is pending.
C17_DepthFirst ==
    [][(/\ pc = "update"
        /\ last.op = "list"
        /\ last'.op \in VisitOps
        /\ \E i \in DOMAIN queue : parent(queue[i]) = last.path) =>
            /\ parent(last'.path) = last.path
            /\ last'.path = queue[1]]_vars

\* C17 (amended): update visits breadth-first, first pushed first: no pending entry
\* is shallower than the entry just visited, and when a directory has been expanded
\* while an entry pushed before its children is still pending, the next entry visited
\* is not one of its children.
C17_BreadthFirst ==
    /\ []((pc = "update" /\ last.op \in VisitOps) =>
            \A i \in DOMAIN queue : Len(queue[i]) >= Len(last.path))
    /\ [][(/\ pc = "update"
           /\ last.op = "list"
           /\ last'.op \in VisitOps
           /\ \E i \in DOMAIN queue : parent(queue[i]) # last.path) =>
                parent(last'.path) # last.path]_vars

\* C17 witness: root/2023 has been visited while root/2020/01, pushed when its
\* sibling root/2020 was expanded, is pending
C17_Witness ==
    /\ pc = "update"
    /\ last.op = "list"
    /\ last.path = <<n_root, n_2023>>
    /\ \E i \in DOMAIN queue : queue[i] = <<n_root, n_2020, n_01>>

\* C18: an invocation of clear that began with n records runs at most n loop bodies:
\* every loop body takes exactly one record off the queue and out of the membership
\* set and inserts none, whether archiving succeeds or fails, no other step of clear
\* changes the index, and so the records left plus the paths popped so far always make
\* n; once the index is empty the only step left to clear is to return.
C18_ClearBounded ==
    /\ [](pc \in {"clear", "main_sleep"} =>
            /\ Len(queue_remove) + Cardinality(run.popped) = run.n
            /\ Cardinality(run.popped) <= run.n
            /\ run.failed \subseteq run.popped
            /\ run.popped \cap exist_files = {})
    /\ [][pc = "clear" =>
            \/ /\ last'.op = "evict"
               /\ Len(queue_remove') = Len(queue_remove) - 1
               /\ Cardinality(exist_files') = Cardinality(exist_files) - 1
               /\ exist_files' \subseteq exist_files
               /\ Cardinality(run'.popped) = Cardinality(run.popped) + 1
            \/ UNCHANGED <<queue_remove, exist_files, run>>]_vars
    /\ [][(pc = "clear" /\ is_empty /\ pc' # pc) =>
            (pc' = "main_sleep" /\ last'.op = "return")]_vars

\* C18 witness: clear began with three records, every attempt failed, and it has
\* returned after three loop bodies with the index empty
C18_Witness ==
    /\ pc = "main_sleep"
    /\ last.op = "return"
    /\ run.n = 3
    /\ Cardinality(run.popped) = 3
    /\ run.failed = run.popped
    /\ is_empty

\* the daemon's own thread keeps running clear once it has entered it: a step of clear
\* that stays possible is eventually taken
SpecClearFair == Spec /\ WF_vars(ClearEvict \/ ClearReturn \/ ClearCrash)

\* every invocation of clear comes to an end (under SpecClearFair)
ClearTerminates == (pc = "clear") ~> (pc # "clear")

\* the steps other processes take on the watched tree
EnvOps == {"env_create", "env_delete"}

\* C19: a step of update keeps every record of the queue and every path of the
\* membership set as they are and leaves the disk, the directories and the archive
\* alone; a step of clear adds no record and no path, takes a file off the disk only if
\* it is the file of the record that step popped, and writes to the archive only at
\* the zip file of that record.
C19_UpdateGrowsClearShrinks ==
    /\ [][(pc \in {"main_update", "update"} /\ last'.op \notin EnvOps) =>
            /\ \A i \in DOMAIN queue_remove :
                  \E j \in DOMAIN queue_remove' : queue_remove'[j] = queue_remove[i]
            /\ Len(queue_remove') >= Len(queue_remove)
            /\ exist_files \subseteq exist_files'
            /\ UNCHANGED <<disk, dirs, archive>>]_vars
    /\ [][(pc \in {"main_clear", "clear"} /\ last'.op \notin EnvOps) =>
            /\ \A j \in DOMAIN queue_remove' :
                  \E i \in DOMAIN queue_remove : queue_remove[i] = queue_remove'[j]
            /\ Len(queue_remove') <= Len(queue_remove)
            /\ exist_files' \subseteq exist_files
            /\ dirs' = dirs
            /\ disk' # disk =>
                  /\ last'.op = "evict"
                  /\ last'.path \in run'.popped
                  /\ last'.path \notin exist_files'
                  /\ disk' = disk \ {last'.path}
            /\ archive' # archive =>
                  /\ last'.op = "evict"
                  /\ DOMAIN archive' = DOMAIN archive \cup {dst_file(last'.file)}
                  /\ \A d \in DOMAIN archive :
                        d # dst_file(last'.file) => archive'[d] = archive[d]]_vars

\* C19 witness: clear has archived and deleted the one file it popped so far, and the
\* other tracked files are still tracked and on disk
C19_Witness ==
    /\ last.op = "evict"
    /\ last.outcome = "ok"
    /\ run.popped = {last.path}
    /\ last.path \notin disk
    /\ exist_files # {}
    /\ exist_files \subseteq disk

\* C20: no evicted file's content is lost: every file clear has archived and deleted
\* in the current invocation, and that nobody has put back on disk, is still held by a
\* zip file; and a loop body of clear leaves alone every zip file that holds a file
\* other than the one it popped and no longer on disk.
C20_NoContentLost ==
    /\ [](\A f \in run.popped \ run.failed :
            f \notin disk => \E d \in DOMAIN archive : archive[d] = f)
    /\ [][last'.op = "evict" =>
            \A d \in DOMAIN archive :
                (archive[d] # <<>> /\ archive[d] # last'.path /\ archive[d] \notin disk) =>
                    (d \in DOMAIN archive' /\ archive'[d] = archive[d])]_vars

====
